---- MODULE Spec2Model ----
(***************************************************************************)
(* Model of the HIR callback-inlining pass inline_use_memo                 *)
(* (forget_hir/src/inline_use_memo.rs) over the instruction data model of  *)
(* forget_hir/src/instruction.rs.                                          *)
(*                                                                         *)
(* Instruction indices (InstrIx) are 0-based as in the source; the entry   *)
(* with index ix of an instruction sequence s is s[ix + 1].                *)
(***************************************************************************)
EXTENDS Integers, Sequences, FiniteSets, TLC

\* Largest number of source statements of a generated input function.
MaxStmts == 2

(***************************************************************************)
(* Data model (instruction.rs)                                             *)
(***************************************************************************)

\* Operand { ix, effect }: a reference to an instruction by index.
Operand(ix) == [ix |-> ix, effect |-> "None"]

\* PlaceOrSpread::Place / PlaceOrSpread::Spread
Place(ix) == [kind |-> "Place", operand |-> Operand(ix)]
Spread(ix) == [kind |-> "Spread", operand |-> Operand(ix)]

\* Identifier { id, name, data: { mutable_range, scope, type_ } }
Identifier(id, name, tv) ==
    [id |-> id, name |-> name,
     data |-> [mutable_range |-> <<0, 0>>, scope |-> "None", type_ |-> tv]]

\* IdentifierOperand { identifier, effect }
IdentifierOperand(identifier) == [identifier |-> identifier, effect |-> "None"]

\* LValue { identifier, kind }
LValue(identifier, kind) ==
    [identifier |-> IdentifierOperand(identifier), kind |-> kind]

\* Instruction { id, value }
Instruction(id, value) == [id |-> id, value |-> value]

\* InstructionValue variants
LoadGlobal(name) == [tag |-> "LoadGlobal", name |-> name]
FunctionExpression(deps, f) ==
    [tag |-> "Function", dependencies |-> deps, lowered_function |-> f]
Call(callee, arguments) ==
    [tag |-> "Call", callee |-> Operand(callee), arguments |-> arguments]
LoadLocal(identifier) ==
    [tag |-> "LoadLocal", place |-> IdentifierOperand(identifier)]
DeclareLocal(identifier, kind) ==
    [tag |-> "DeclareLocal", lvalue |-> LValue(identifier, kind)]
StoreLocal(identifier, kind, ix) ==
    [tag |-> "StoreLocal", lvalue |-> LValue(identifier, kind),
     stored |-> Operand(ix)]
Primitive(v) == [tag |-> "Primitive", primitive |-> v]
Tombstone == [tag |-> "Tombstone"]

\* Terminal { id, value } and the TerminalValue variants the pass handles
Terminal(id, value) == [id |-> id, value |-> value]
ReturnTerminal(ix) == [tag |-> "Return", returned |-> Operand(ix)]
GotoTerminal(block, kind) == [tag |-> "Goto", block |-> block, kind |-> kind]
LabelTerminal(block, fallthrough) ==
    [tag |-> "Label", block |-> block, fallthrough |-> fallthrough]
IfTerminal(test, consequent, alternate) ==
    [tag |-> "If", test |-> Operand(test), consequent |-> consequent,
     alternate |-> alternate]

\* BasicBlock { id, instructions, kind, phis, predecessors, terminal }
BasicBlock(id, instructions, kind, preds, terminal) ==
    [id |-> id, instructions |-> instructions, kind |-> kind, phis |-> <<>>,
     predecessors |-> preds, terminal |-> terminal]

\* Function { params, is_async, is_generator, body: { instructions, blocks, entry } }
Function(params, is_async, is_generator, instructions, blocks, entry) ==
    [params |-> params, is_async |-> is_async, is_generator |-> is_generator,
     body |-> [instructions |-> instructions, blocks |-> blocks, entry |-> entry]]

(***************************************************************************)
(* Input functions: the HIR that lowering hands to the pass.  An input is  *)
(* a list of at most MaxStmts source statements, laid out in one block or  *)
(* split over two blocks joined by a goto.  Block ids are unique over the  *)
(* whole function tree and instruction operands refer to earlier indices.  *)
(***************************************************************************)

LambdaKinds ==
    {"simple", "branch", "nested", "param", "async", "generator", "paramAsync"}

\* The statements an input is made of:
\*   memo    const x = useMemo(<lambda>); x;
\*   call    f();
\*   spread  useMemo(...<lambda>);
\*   nonfn   useMemo(1);
\*   noarg   useMemo();
\*   other   notMemo(<lambda>);
\*   shared  useMemo(<the latest function literal of an earlier statement>);
Stmts ==
    {[op |-> "memo", lam |-> l] : l \in LambdaKinds}
        \cup {[op |-> o, lam |-> "simple"] :
                o \in {"call", "spread", "nonfn", "noarg", "other", "shared"}}

\* Block ids set aside for the lambda of the k-th statement.
LambdaBase(k) == 2 + 4 * (k - 1)

SimpleBody(base) ==
    [instructions |-> <<Instruction(1, Primitive("1"))>>,
     blocks |-> <<BasicBlock(base, <<0>>, "Block", {},
                             Terminal(100 + base, ReturnTerminal(0)))>>,
     entry |-> base]

BranchBody(base) ==
    [instructions |-> <<Instruction(1, LoadGlobal("a")),
                        Instruction(2, LoadGlobal("b")),
                        Instruction(3, LoadGlobal("c"))>>,
     blocks |-> <<BasicBlock(base, <<0>>, "Block", {},
                             Terminal(100 + base, IfTerminal(0, base + 1, base + 2))),
                  BasicBlock(base + 1, <<1>>, "Block", {base},
                             Terminal(101 + base, ReturnTerminal(1))),
                  BasicBlock(base + 2, <<2>>, "Block", {base},
                             Terminal(102 + base, ReturnTerminal(2)))>>,
     entry |-> base]

NestedBody(base) ==
    [instructions |->
        <<Instruction(1, LoadGlobal("useMemo")),
          Instruction(2, FunctionExpression(<<>>,
              [params |-> <<>>, is_async |-> FALSE, is_generator |-> FALSE,
               body |-> SimpleBody(base + 1)])),
          Instruction(3, Call(0, <<Place(1)>>))>>,
     blocks |-> <<BasicBlock(base, <<0, 1, 2>>, "Block", {},
                             Terminal(100 + base, ReturnTerminal(2)))>>,
     entry |-> base]

\* The function literal of kind lk whose blocks start at id base.
Lambda(lk, base) ==
    [params |-> IF lk \in {"param", "paramAsync"} THEN <<"a">> ELSE <<>>,
     is_async |-> lk \in {"async", "paramAsync"},
     is_generator |-> lk = "generator",
     body |-> CASE lk = "branch" -> BranchBody(base)
                [] lk = "nested" -> NestedBody(base)
                [] OTHER -> SimpleBody(base)]

\* The identifier `x` declared by the k-th statement.
LocalX(k) == Identifier(k, "x", k)

\* Instructions of statement st, the k-th of the input, placed at index off;
\* lastFn is the index of the latest earlier function literal, or -1.
StmtInstrs(st, k, off, lastFn) ==
    LET fn == FunctionExpression(<<>>, Lambda(st.lam, LambdaBase(k)))
    IN  CASE st.op = "memo" ->
               <<Instruction(off + 1, LoadGlobal("useMemo")),
                 Instruction(off + 2, fn),
                 Instruction(off + 3, Call(off, <<Place(off + 1)>>)),
                 Instruction(off + 4, StoreLocal(LocalX(k), "Const", off + 2)),
                 Instruction(off + 5, LoadLocal(LocalX(k)))>>
          [] st.op = "call" ->
               <<Instruction(off + 1, LoadGlobal("f")),
                 Instruction(off + 2, Call(off, <<>>))>>
          [] st.op = "spread" ->
               <<Instruction(off + 1, LoadGlobal("useMemo")),
                 Instruction(off + 2, fn),
                 Instruction(off + 3, Call(off, <<Spread(off + 1)>>))>>
          [] st.op = "nonfn" ->
               <<Instruction(off + 1, LoadGlobal("useMemo")),
                 Instruction(off + 2, Primitive("1")),
                 Instruction(off + 3, Call(off, <<Place(off + 1)>>))>>
          [] st.op = "noarg" ->
               <<Instruction(off + 1, LoadGlobal("useMemo")),
                 Instruction(off + 2, Call(off, <<>>))>>
          [] st.op = "other" ->
               <<Instruction(off + 1, LoadGlobal("notMemo")),
                 Instruction(off + 2, fn),
                 Instruction(off + 3, Call(off, <<Place(off + 1)>>))>>
          [] OTHER ->
               <<Instruction(off + 1, LoadGlobal("useMemo")),
                 Instruction(off + 2,
                     Call(off, IF lastFn >= 0 THEN <<Place(lastFn)>> ELSE <<>>))>>

\* Index of the function literal statement st leaves behind, if it has one.
StmtLastFn(st, off, lastFn) ==
    IF st.op \in {"memo", "spread", "other"} THEN off + 1 ELSE lastFn

IndexRange(off, n) == [j \in 1..n |-> off + j - 1]

\* Lay out statements k..Len(stmts); the first `split` statements form block 0.
RECURSIVE Lower(_, _, _, _)
Lower(stmts, split, k, acc) ==
    IF k > Len(stmts)
    THEN LET off == Len(acc.instructions)
             last == BasicBlock(
                 IF split < Len(stmts) THEN 1 ELSE 0,
                 Append(acc.current, off), "Block",
                 IF split < Len(stmts) THEN {0} ELSE {},
                 Terminal(IF split < Len(stmts) THEN 101 ELSE 100,
                          ReturnTerminal(off)))
         IN  Function(<<>>, FALSE, FALSE,
                      Append(acc.instructions,
                             Instruction(off + 1, Primitive("undefined"))),
                      Append(acc.blocks, last), 0)
    ELSE LET off == Len(acc.instructions)
             new == StmtInstrs(stmts[k], k, off, acc.lastFn)
             cur == acc.current \o IndexRange(off, Len(new))
             closes == k = split /\ split < Len(stmts)
         IN  Lower(stmts, split, k + 1,
                   [instructions |-> acc.instructions \o new,
                    current |-> IF closes THEN <<>> ELSE cur,
                    blocks |-> IF closes
                               THEN <<BasicBlock(0, cur, "Block", {},
                                        Terminal(100, GotoTerminal(1, "Break")))>>
                               ELSE acc.blocks,
                    lastFn |-> StmtLastFn(stmts[k], off, acc.lastFn)])

LowerFunction(stmts, split) ==
    Lower(stmts, split, 1,
          [instructions |-> <<>>, current |-> <<>>, blocks |-> <<>>, lastFn |-> -1])

\* Every input: a statement list and where its first block ends.
Inputs ==
    {LowerFunction(stmts, split) :
        <<stmts, split>> \in
            UNION {{<<s, p>> : s \in [1..n -> Stmts],
                               p \in (IF n = 0 THEN {0} ELSE 1..n)} : n \in 0..MaxStmts}}

\* Environment counters once the input has been lowered: above every id in use.
InitialEnvironment ==
    [next_identifier_id |-> MaxStmts + 1,
     next_type_var_id |-> MaxStmts + 1,
     next_block_id |-> LambdaBase(MaxStmts + 1)]

(***************************************************************************)
(* Environment: the monotonic id generators shared by a function tree.     *)
(***************************************************************************)

next_identifier_id(e) == [e EXCEPT !.next_identifier_id = @ + 1]
next_type_var_id(e) == [e EXCEPT !.next_type_var_id = @ + 1]
next_block_id(e) == [e EXCEPT !.next_block_id = @ + 1]

(***************************************************************************)
(* inline_use_memo: the closure run on each block (inline_use_memo.rs)     *)
(***************************************************************************)

\* The instruction with index ix.
InstrAt(instructions, ix) == instructions[ix + 1]

\* LoadGlobal arm: the instruction loads the global named "useMemo".
IsUseMemoGlobal(value) == value.tag = "LoadGlobal" /\ value.name = "useMemo"

\* Mutant of LambdaIx: a spread first argument is taken like a plain one.
LambdaIxOfAnyArgument(value) ==
    IF Len(value.arguments) > 0 THEN value.arguments[1].operand.ix ELSE -1

\* `match &value.arguments.get(0)`: the index behind a plain first argument,
\* -1 where the source says `continue`.
LambdaIx(value) ==
    IF Len(value.arguments) > 0 /\ value.arguments[1].kind = "Place"
    THEN value.arguments[1].operand.ix
    ELSE -1

\* Mutant of Matches: the lambda is looked up in the set of useMemo loads.
MatchesInWrongSet(value, globals, fns) ==
    /\ value.callee.ix \in globals
    /\ LambdaIx(value) # -1
    /\ LambdaIx(value) \in globals

\* The three checks a Call passes before it is inlined.
Matches(value, globals, fns) ==
    /\ value.callee.ix \in globals
    /\ LambdaIx(value) # -1
    /\ LambdaIx(value) \in fns

\* Mutant of Temporary: the counter is read one too low.
TemporaryWithStaleId(e) ==
    Identifier(e.next_identifier_id - 1, "t", e.next_type_var_id)

\* The temporary that receives the useMemo result.
Temporary(e) == Identifier(e.next_identifier_id, "t", e.next_type_var_id)

\* The load of the temporary that replaces the call.
CallReplacement(temporary) == LoadLocal(temporary)

\* Mutant of Validate: the async/generator check comes first.
ValidateAsyncFirst(lambda) ==
    IF lambda.lowered_function.is_async \/ lambda.lowered_function.is_generator
    THEN "useMemo callbacks may not be async or generator functions"
    ELSE IF lambda.lowered_function.params # <<>>
         THEN "useMemo callbacks may not accept any arguments"
         ELSE "Ok"

\* "Additional validation": the diagnostic message, or "Ok".
Validate(lambda) ==
    IF lambda.lowered_function.params # <<>>
    THEN "useMemo callbacks may not accept any arguments"
    ELSE IF lambda.lowered_function.is_async \/ lambda.lowered_function.is_generator
         THEN "useMemo callbacks may not be async or generator functions"
         ELSE "Ok"

\* Mutant of StoreOfReturn: the store takes instruction 0, not the operand returned.
StoreOfFirstInstruction(block, temporary, instr_id) ==
    Instruction(instr_id, StoreLocal(temporary, "Reassign", 0))

\* Rewrite of one block of the lambda whose terminal is a Return: the store
\* pushed onto the lambda's instructions, and the block with the store
\* appended and a break to the continuation block as terminal.
StoreOfReturn(block, temporary, instr_id) ==
    Instruction(instr_id,
                StoreLocal(temporary, "Reassign", block.terminal.value.returned.ix))

\* Mutant of BreakToContinuation: the store is appended, the Return stays.
StoreButKeepReturn(block, store_ix, continuation_block_id) ==
    [block EXCEPT !.instructions = Append(@, store_ix)]

BreakToContinuation(block, store_ix, continuation_block_id) ==
    [block EXCEPT
        !.instructions = Append(@, store_ix),
        !.terminal = [@ EXCEPT !.value = GotoTerminal(continuation_block_id, "Break")]]

\* `for block in lambda.lowered_function.body.blocks.iter_mut()`, from block n on.
RECURSIVE RewriteReturns(_, _, _, _, _)
RewriteReturns(body, n, temporary, instr_id, continuation_block_id) ==
    IF n > Len(body.blocks)
    THEN body
    ELSE LET block == body.blocks[n]
         IN  IF block.terminal.value.tag = "Return"
             THEN RewriteReturns(
                      [body EXCEPT
                          !.instructions =
                              Append(@, StoreOfReturn(block, temporary, instr_id)),
                          !.blocks[n] =
                              BreakToContinuation(block, Len(body.instructions),
                                                  continuation_block_id)],
                      n + 1, temporary, instr_id, continuation_block_id)
             ELSE RewriteReturns(body, n + 1, temporary, instr_id,
                                 continuation_block_id)

\* Mutant of LabelInPlace: body and fallthrough are swapped.
LabelSwapped(terminal, entry, continuation_block_id) ==
    Terminal(terminal.id, LabelTerminal(continuation_block_id, entry))

\* The label terminal that takes the place of the block's own terminal.
LabelInPlace(terminal, entry, continuation_block_id) ==
    Terminal(terminal.id, LabelTerminal(entry, continuation_block_id))

\* Mutant of SplitOffTail: the split is made after the call site.
SplitOffTailAfterCall(instrs, i) == SubSeq(instrs, i + 2, Len(instrs))

\* Mutant of SplitOffKept: the call site stays in the block as well.
SplitOffKeptWithCall(instrs, i) == SubSeq(instrs, 1, i + 1)

\* `block.instructions.split_off(i)`: what stays, and what is returned.
SplitOffKept(instrs, i) == SubSeq(instrs, 1, i)
SplitOffTail(instrs, i) == SubSeq(instrs, i + 1, Len(instrs))

\* The declaration of the temporary pushed at the end of the block.
DeclareTemporary(instr_id, temporary) ==
    Instruction(instr_id, DeclareLocal(temporary, "Let"))

\* Mutant of ContinuationBlock: the id is copied from the block, like its kind.
ContinuationBlockWithCopiedId(continuation_block_id, continuation_instructions, block, terminal) ==
    [id |-> block.id,
     instructions |-> continuation_instructions,
     kind |-> block.kind,
     phis |-> <<>>,
     predecessors |-> {},
     terminal |-> terminal]

\* The block for the code that follows the useMemo call.
ContinuationBlock(continuation_block_id, continuation_instructions, block, terminal) ==
    [id |-> continuation_block_id,
     instructions |-> continuation_instructions,
     kind |-> block.kind,
     phis |-> <<>>,
     predecessors |-> {},
     terminal |-> terminal]

\* What one invocation of the closure hands back: the action for the rewriter
\* ("Keep"), a diagnostic ("Err") or a panic, with the state it leaves.
Outcome(action, msg, block, c) ==
    [action |-> action, msg |-> msg, block |-> block,
     instructions |-> c.instructions, env |-> c.env,
     use_memo_globals |-> c.use_memo_globals, functions |-> c.functions,
     new_blocks |-> c.new_blocks, inlined |-> c.inlined, events |-> c.events]

\* The Call arm once the three checks have passed, for the call at position i
\* of the block.
InlineCall(block, i, instr_ix, c) ==
    LET instr == InstrAt(c.instructions, instr_ix)
        lambda_ix == LambdaIx(instr.value)
        instr_id == instr.id
        temporary == Temporary(c.env)
        env1 == next_type_var_id(next_identifier_id(c.env))
        replaced == [c.instructions EXCEPT
                        ![instr_ix + 1].value = CallReplacement(temporary)]
        lambda == InstrAt(replaced, lambda_ix).value
        taken == [replaced EXCEPT ![lambda_ix + 1].value = Tombstone]
        c1 == [c EXCEPT !.instructions = taken, !.env = env1]
    IN  IF lambda.tag # "Function"
        THEN Outcome("Panic", "Must be a function, checked above", block, c1)
        ELSE IF Validate(lambda) # "Ok"
        THEN Outcome("Err", Validate(lambda), block, c1)
        ELSE
        LET continuation_block_id == env1.next_block_id
            env2 == next_block_id(env1)
            body == RewriteReturns(lambda.lowered_function.body, 1, temporary,
                                   instr_id, continuation_block_id)
            terminal == block.terminal
            continuation_instructions == SplitOffTail(block.instructions, i)
            declare_ix == Len(taken)
            block1 == [block EXCEPT
                          !.terminal = LabelInPlace(terminal, body.entry,
                                                    continuation_block_id),
                          !.instructions = Append(SplitOffKept(@, i), declare_ix)]
            continuation_block ==
                ContinuationBlock(continuation_block_id, continuation_instructions,
                                  block, terminal)
        IN  Outcome("Keep", "", block1,
                [c1 EXCEPT
                    !.instructions = Append(taken, DeclareTemporary(instr_id, temporary)),
                    !.env = env2,
                    !.new_blocks = Append(@, continuation_block),
                    !.inlined = Append(@, [lambda.lowered_function EXCEPT !.body = body]),
                    !.events = Append(@,
                        [block |-> block.id, i |-> i, instr_ix |-> instr_ix,
                         lambda_ix |-> lambda_ix, temporary |-> temporary,
                         continuation_block_id |-> continuation_block_id,
                         lambda |-> lambda.lowered_function])])

\* `for (i, instr_ix) in block.instructions.iter().cloned().enumerate()`,
\* from position i on.
RECURSIVE ScanBlock(_, _, _)
ScanBlock(block, i, c) ==
    IF i >= Len(block.instructions)
    THEN Outcome("Keep", "", block, c)
    ELSE LET instr_ix == block.instructions[i + 1]
             value == InstrAt(c.instructions, instr_ix).value
         IN  CASE value.tag = "LoadGlobal" ->
                    ScanBlock(block, i + 1,
                        IF IsUseMemoGlobal(value)
                        THEN [c EXCEPT !.use_memo_globals = @ \cup {instr_ix}]
                        ELSE c)
               [] value.tag = "Function" ->
                    ScanBlock(block, i + 1, [c EXCEPT !.functions = @ \cup {instr_ix}])
               [] value.tag = "Call" ->
                    IF Matches(value, c.use_memo_globals, c.functions)
                    THEN InlineCall(block, i, instr_ix, c)
                    ELSE ScanBlock(block, i + 1, c)
               [] OTHER -> ScanBlock(block, i + 1, c)

(***************************************************************************)
(* HIR::inline: merge a moved-in function body into the parent.  The       *)
(* lambda's instructions are appended and every index into them is offset  *)
(* by the parent's instruction count; its blocks join the block map.       *)
(***************************************************************************)

OffsetOperand(o, d) == [o EXCEPT !.ix = @ + d]

OffsetValue(value, d) ==
    CASE value.tag = "Call" ->
           [value EXCEPT
               !.callee = OffsetOperand(@, d),
               !.arguments = [j \in 1..Len(@) |->
                                 [@[j] EXCEPT !.operand = OffsetOperand(@, d)]]]
      [] value.tag = "StoreLocal" -> [value EXCEPT !.stored = OffsetOperand(@, d)]
      [] value.tag = "Function" ->
           [value EXCEPT
               !.dependencies = [j \in 1..Len(@) |-> OffsetOperand(@[j], d)]]
      [] OTHER -> value

OffsetTerminal(value, d) ==
    CASE value.tag = "Return" -> [value EXCEPT !.returned = OffsetOperand(@, d)]
      [] value.tag = "If" -> [value EXCEPT !.test = OffsetOperand(@, d)]
      [] OTHER -> value

OffsetBlock(block, d) ==
    [block EXCEPT
        !.instructions = [j \in 1..Len(@) |-> @[j] + d],
        !.terminal = [@ EXCEPT !.value = OffsetTerminal(@, d)]]

inline(body, lambda) ==
    LET d == Len(body.instructions)
        li == lambda.body.instructions
        lb == lambda.body.blocks
    IN  [body EXCEPT
            !.instructions =
                @ \o [j \in 1..Len(li) |-> [li[j] EXCEPT !.value = OffsetValue(@, d)]],
            !.blocks = @ \o [j \in 1..Len(lb) |-> OffsetBlock(lb[j], d)]]

RECURSIVE InlineAll(_, _, _)
InlineAll(body, lambdas, n) ==
    IF n > Len(lambdas) THEN body
    ELSE InlineAll(inline(body, lambdas[n]), lambdas, n + 1)

(***************************************************************************)
(* initialize_hir: blocks in reverse postorder from the entry, unreachable *)
(* blocks pruned, unreachable fallthroughs cleared, predecessors           *)
(* recomputed.  Instruction numbering is left as it is.                    *)
(***************************************************************************)

BlockIds(blocks) == {blocks[j].id : j \in 1..Len(blocks)}

BlockById(blocks, id) == blocks[CHOOSE j \in 1..Len(blocks) : blocks[j].id = id]

\* Successors of a terminal, last first.
SuccessorsReversed(value) ==
    CASE value.tag = "Goto" -> <<value.block>>
      [] value.tag = "If" -> <<value.alternate, value.consequent>>
      [] value.tag = "Label" -> <<value.block>>
      [] OTHER -> <<>>

RECURSIVE Postorder(_, _, _)
RECURSIVE PostorderAll(_, _, _, _)
Postorder(blocks, id, st) ==
    IF id \in st.visited \/ id \notin BlockIds(blocks)
    THEN st
    ELSE LET succ == SuccessorsReversed(BlockById(blocks, id).terminal.value)
             st1 == PostorderAll(blocks, succ, 1,
                                 [st EXCEPT !.visited = @ \cup {id}])
         IN  [st1 EXCEPT !.post = Append(@, id)]
PostorderAll(blocks, ids, n, st) ==
    IF n > Len(ids) THEN st
    ELSE PostorderAll(blocks, ids, n + 1, Postorder(blocks, ids[n], st))

reverse_postorder_blocks(body) ==
    LET post == Postorder(body.blocks, body.entry, [visited |-> {}, post |-> <<>>]).post
        n == Len(post)
    IN  [body EXCEPT
            !.blocks = [j \in 1..n |-> BlockById(body.blocks, post[n + 1 - j])]]

remove_unreachable_fallthroughs(body) ==
    [body EXCEPT
        !.blocks = [j \in 1..Len(@) |->
            IF /\ @[j].terminal.value.tag = "Label"
               /\ @[j].terminal.value.fallthrough \notin BlockIds(body.blocks)
            THEN [@[j] EXCEPT !.terminal.value.fallthrough = -1]
            ELSE @[j]]]

mark_predecessors(body) ==
    [body EXCEPT
        !.blocks = [j \in 1..Len(@) |->
            [@[j] EXCEPT !.predecessors =
                {body.blocks[k].id : k \in
                    {k \in 1..Len(body.blocks) :
                        \E m \in 1..Len(SuccessorsReversed(body.blocks[k].terminal.value)) :
                            SuccessorsReversed(body.blocks[k].terminal.value)[m]
                                = body.blocks[j].id}}]]]

initialize_hir(body) ==
    mark_predecessors(remove_unreachable_fallthroughs(reverse_postorder_blocks(body)))

(***************************************************************************)
(* Instruction::each_operand and the remaining InstructionValue variants   *)
(* (instruction.rs)                                                        *)
(***************************************************************************)

\* Array { elements: Vec<Option<PlaceOrSpread>> }; Hole is the `None` element.
Hole == [kind |-> "Hole"]
Array(elements) == [tag |-> "Array", elements |-> elements]

\* Binary { left, operator, right }
Binary(left, operator, right) ==
    [tag |-> "Binary", left |-> Operand(left), operator |-> operator,
     right |-> Operand(right)]

\* JSXAttribute::Spread { argument } / JSXAttribute::Attribute { name, value }
JSXSpreadAttribute(ix) == [kind |-> "Spread", argument |-> Operand(ix)]
JSXAttribute(name, ix) ==
    [kind |-> "Attribute", name |-> name, value |-> Operand(ix)]

\* JSXElement { tag, props, children }; children is <<>> for None and
\* <<operands>> for Some(operands).
JSXElement(tag, props, children) ==
    [tag |-> "JSXElement", tag_ |-> Operand(tag), props |-> props,
     children |-> children]

\* DeclareContext { lvalue } and LoadContext { place: Operand }
DeclareContext(identifier) ==
    [tag |-> "DeclareContext", lvalue |-> LValue(identifier, "Let")]
LoadContext(ix) == [tag |-> "LoadContext", place |-> Operand(ix)]

\* The operands behind a list of PlaceOrSpread items, in order.
ItemOperands(items) == [j \in 1..Len(items) |-> items[j].operand]

\* The operands behind a list of JSX attributes, in order.
AttributeOperands(props) ==
    [j \in 1..Len(props) |->
        IF props[j].kind = "Spread" THEN props[j].argument ELSE props[j].value]

\* each_operand: the operands the callback is called on, in call order.
each_operand(value) ==
    CASE value.tag = "Array" ->
           ItemOperands(SelectSeq(value.elements, LAMBDA item : item.kind # "Hole"))
      [] value.tag = "Binary" -> <<value.left, value.right>>
      [] value.tag = "Call" -> <<value.callee>> \o ItemOperands(value.arguments)
      [] value.tag = "StoreLocal" -> <<value.stored>>
      [] value.tag = "Function" -> value.dependencies
      [] value.tag = "JSXElement" ->
           <<value.tag_>> \o AttributeOperands(value.props)
               \o (IF value.children = <<>> THEN <<>> ELSE value.children[1])
      [] value.tag \in {"DeclareContext", "LoadContext", "LoadGlobal",
                        "DeclareLocal", "LoadLocal", "Primitive", "Tombstone"} ->
           <<>>

(***************************************************************************)
(* 64-bit floating values.  A floating value is given by its class, sign   *)
(* and magnitude (a NaN also by the 52 bits of its payload); its bit       *)
(* pattern is a u64 written as four 16-bit limbs, most significant first:  *)
(* 1 sign bit, 11 exponent bits, 52 fraction bits.  The finite values of   *)
(* the model are the integers of magnitude at most MaxMagnitude.           *)
(***************************************************************************)

\* Largest magnitude of a finite floating value of the model.
MaxMagnitude == 2

Finite(sign, magnitude) ==
    [class |-> "Finite", sign |-> sign, magnitude |-> magnitude,
     payload |-> <<0, 0, 0, 0>>]
Infinity(sign) ==
    [class |-> "Inf", sign |-> sign, magnitude |-> 0, payload |-> <<0, 0, 0, 0>>]
NaNWith(sign, payload) ==
    [class |-> "NaN", sign |-> sign, magnitude |-> 0, payload |-> payload]

\* A result outside the finite values of the model.
Unrepresentable ==
    [class |-> "Unrepresentable", sign |-> 0, magnitude |-> 0,
     payload |-> <<0, 0, 0, 0>>]

\* f64::NAN: the positive quiet NaN with empty payload, 0x7ff8000000000000.
NAN == NaNWith(0, <<8, 0, 0, 0>>)

\* The NaNs a computation or a caller may produce: f64::NAN, the negative
\* quiet NaN 0xfff8000000000000, a quiet NaN with a payload, a signalling NaN.
NaNPatterns ==
    {NAN, NaNWith(1, <<8, 0, 0, 0>>), NaNWith(0, <<8, 0, 0, 1>>),
     NaNWith(0, <<0, 0, 0, 1>>)}

\* Every floating value of the model.
F64Values ==
    NaNPatterns \cup {Infinity(s) : s \in 0..1}
        \cup {Finite(s, m) : s \in 0..1, m \in 0..MaxMagnitude}

\* f64::is_nan
is_nan(value) == value.class = "NaN"

\* The exponent of the leading bit of a positive integer.
Log2(m) == CHOOSE e \in 0..4 : 2^e <= m /\ m < 2^(e + 1)

\* f64::to_bits
to_bits(value) ==
    LET s == value.sign * 32768
    IN  CASE value.class = "NaN" ->
               <<s + 2047 * 16 + value.payload[1], value.payload[2],
                 value.payload[3], value.payload[4]>>
          [] value.class = "Inf" -> <<s + 2047 * 16, 0, 0, 0>>
          [] value.class = "Finite" /\ value.magnitude = 0 -> <<s, 0, 0, 0>>
          [] value.class = "Finite" /\ value.magnitude > 0 ->
               LET e == Log2(value.magnitude)
               IN  <<s + (1023 + e) * 16 + (value.magnitude - 2^e) * 2^(4 - e),
                     0, 0, 0>>

\* f64::from_bits
from_bits(bits) ==
    LET sign == bits[1] \div 32768
        exponent == (bits[1] % 32768) \div 16
        top == bits[1] % 16
        fraction == <<top, bits[2], bits[3], bits[4]>>
    IN  IF exponent = 2047
        THEN IF fraction = <<0, 0, 0, 0>> THEN Infinity(sign)
             ELSE NaNWith(sign, fraction)
        ELSE IF exponent = 0 THEN Finite(sign, 0)
        ELSE LET e == exponent - 1023
             IN  Finite(sign, 2^e + top \div 2^(4 - e))

\* The integer a finite value stands for.
IntegerOf(value) ==
    IF value.sign = 1 THEN 0 - value.magnitude ELSE value.magnitude

\* The finite value of a non-zero integer, if the model has it.
OfInteger(r) ==
    LET m == IF r < 0 THEN 0 - r ELSE r
    IN  IF m <= MaxMagnitude THEN Finite(IF r < 0 THEN 1 ELSE 0, m)
        ELSE Unrepresentable

IsZero(value) == value.class = "Finite" /\ value.magnitude = 0

\* `a == b` on floating values: a NaN equals nothing, the two zeros are equal.
F64Eq(a, b) ==
    /\ ~is_nan(a)
    /\ ~is_nan(b)
    /\ (a = b \/ (IsZero(a) /\ IsZero(b)))

\* `a + b`; nan is the NaN the processor produces where the result is one.
F64Add(a, b, nan) ==
    CASE is_nan(a) \/ is_nan(b) -> nan
      [] a.class = "Inf" /\ b.class = "Inf" -> IF a.sign = b.sign THEN a ELSE nan
      [] a.class = "Inf" /\ b.class = "Finite" -> a
      [] a.class = "Finite" /\ b.class = "Inf" -> b
      [] a.class = "Finite" /\ b.class = "Finite" ->
           LET r == IntegerOf(a) + IntegerOf(b)
           IN  IF r # 0 THEN OfInteger(r)
               ELSE Finite(IF IsZero(a) /\ IsZero(b) /\ a.sign = 1 /\ b.sign = 1
                           THEN 1 ELSE 0, 0)

\* `a - b`
F64Sub(a, b, nan) == F64Add(a, [b EXCEPT !.sign = 1 - @], nan)

\* `a * b`
F64Mul(a, b, nan) ==
    LET sign == (a.sign + b.sign) % 2
    IN  CASE is_nan(a) \/ is_nan(b) -> nan
          [] (a.class = "Inf" /\ IsZero(b)) \/ (IsZero(a) /\ b.class = "Inf") -> nan
          [] (a.class = "Inf" /\ ~IsZero(b) /\ ~is_nan(b))
                 \/ (b.class = "Inf" /\ ~IsZero(a) /\ ~is_nan(a)) -> Infinity(sign)
          [] a.class = "Finite" /\ b.class = "Finite" ->
               IF a.magnitude * b.magnitude <= MaxMagnitude
               THEN Finite(sign, a.magnitude * b.magnitude)
               ELSE Unrepresentable

\* `a / b`
F64Div(a, b, nan) ==
    LET sign == (a.sign + b.sign) % 2
    IN  CASE is_nan(a) \/ is_nan(b) -> nan
          [] a.class = "Inf" /\ b.class = "Inf" -> nan
          [] IsZero(a) /\ IsZero(b) -> nan
          [] a.class = "Inf" /\ b.class = "Finite" -> Infinity(sign)
          [] a.class = "Finite" /\ b.class = "Inf" -> Finite(sign, 0)
          [] a.class = "Finite" /\ ~IsZero(a) /\ IsZero(b) -> Infinity(sign)
          [] a.class = "Finite" /\ b.class = "Finite" /\ ~IsZero(b) ->
               IF a.magnitude % b.magnitude = 0
               THEN Finite(sign, a.magnitude \div b.magnitude)
               ELSE Unrepresentable

(***************************************************************************)
(* Number and PrimitiveValue (instruction.rs)                              *)
(***************************************************************************)

\* `struct Number(u64)`
Number(bits) == [bits |-> bits]

\* Mutant of NumberFrom: the bits are stored as they come.
NumberFromRawBits(value) == Number(to_bits(value))

\* `impl From<f64> for Number`
NumberFrom(value) ==
    IF is_nan(value) THEN Number(to_bits(NAN)) ELSE Number(to_bits(value))

\* `impl From<Number> for f64`: the value, and whether the assertion fails.
F64From(number) ==
    LET value == from_bits(number.bits)
    IN  [panic |-> ~(~is_nan(value) \/ number.bits = to_bits(NAN)),
         value |-> value]

\* Mutant of equals: the stored bits are compared.
equals_bits(self, other) == self.bits = other.bits

\* Number::equals
equals(self, other) == F64Eq(F64From(self).value, F64From(other).value)

\* Number::not_equals
not_equals(self, other) == ~equals(self, other)

\* Mutant of number_is_truthy: only the zeros are falsy.
number_is_truthy_zero_only(self) ==
    LET value == F64From(self).value
    IN  ~(F64Eq(value, Finite(0, 0)) \/ F64Eq(value, Finite(1, 0)))

\* Number::is_truthy
number_is_truthy(self) ==
    LET value == F64From(self).value
    IN  IF \/ self.bits = to_bits(NAN)
           \/ F64Eq(value, Finite(0, 0))
           \/ F64Eq(value, Finite(1, 0))
        THEN FALSE
        ELSE TRUE

\* `impl Add/Sub/Mul/Div for Number`: the floating result before it is
\* turned back into a Number.
add_result(self, rhs, nan) == F64Add(F64From(self).value, F64From(rhs).value, nan)
sub_result(self, rhs, nan) == F64Sub(F64From(self).value, F64From(rhs).value, nan)
mul_result(self, rhs, nan) == F64Mul(F64From(self).value, F64From(rhs).value, nan)
div_result(self, rhs, nan) == F64Div(F64From(self).value, F64From(rhs).value, nan)

add(self, rhs, nan) == NumberFrom(add_result(self, rhs, nan))
sub(self, rhs, nan) == NumberFrom(sub_result(self, rhs, nan))
mul(self, rhs, nan) == NumberFrom(mul_result(self, rhs, nan))
div(self, rhs, nan) == NumberFrom(div_result(self, rhs, nan))

\* PrimitiveValue variants
BooleanValue(b) == [kind |-> "Boolean", boolean |-> b]
NullValue == [kind |-> "Null"]
NumberValue(n) == [kind |-> "Number", number |-> n]
StringValue(s) == [kind |-> "String", string |-> s]
UndefinedValue == [kind |-> "Undefined"]

\* The primitive values a caller can build: numbers come from From<f64>.
PrimitiveValues ==
    {BooleanValue(b) : b \in BOOLEAN}
        \cup {NullValue, UndefinedValue}
        \cup {NumberValue(NumberFrom(v)) : v \in F64Values}
        \cup {StringValue(s) : s \in {"", "a", "b"}}

\* PrimitiveValue::is_truthy
is_truthy(self) ==
    CASE self.kind = "Boolean" -> self.boolean
      [] self.kind = "Number" -> number_is_truthy(self.number)
      [] self.kind = "String" -> Len(self.string) # 0
      [] self.kind = "Null" -> FALSE
      [] self.kind = "Undefined" -> FALSE

\* Option<bool>: <<>> is None, <<b>> is Some(b).
None == <<>>
Some(b) == <<b>>

\* Mutant of loosely_equals: differing kinds compare as Some(false).
loosely_equals_total(self, other) ==
    CASE self.kind = "Number" /\ other.kind = "Number" ->
           Some(equals(self.number, other.number))
      [] self.kind = "Null" /\ other.kind \in {"Null", "Undefined"} -> Some(TRUE)
      [] self.kind = "Undefined" /\ other.kind \in {"Null", "Undefined"} -> Some(TRUE)
      [] self.kind = "Boolean" /\ other.kind = "Boolean" ->
           Some(self.boolean = other.boolean)
      [] self.kind = "String" /\ other.kind = "String" ->
           Some(self.string = other.string)
      [] OTHER -> Some(FALSE)

\* PrimitiveValue::loosely_equals
loosely_equals(self, other) ==
    CASE self.kind = "Number" /\ other.kind = "Number" ->
           Some(equals(self.number, other.number))
      [] self.kind = "Null" /\ other.kind = "Null" -> Some(TRUE)
      [] self.kind = "Undefined" /\ other.kind = "Undefined" -> Some(TRUE)
      [] self.kind = "Boolean" /\ other.kind = "Boolean" ->
           Some(self.boolean = other.boolean)
      [] self.kind = "String" /\ other.kind = "String" ->
           Some(self.string = other.string)
      [] self.kind = "Null" /\ other.kind = "Undefined" -> Some(TRUE)
      [] self.kind = "Undefined" /\ other.kind = "Null" -> Some(TRUE)
      [] OTHER -> None

\* PrimitiveValue::not_loosely_equals: `.map(|value| !value)`
not_loosely_equals(self, other) ==
    LET value == loosely_equals(self, other)
    IN  [j \in 1..Len(value) |-> ~value[j]]

\* PrimitiveValue::strictly_equals
strictly_equals(self, other) ==
    CASE self.kind = "Number" /\ other.kind = "Number" ->
           equals(self.number, other.number)
      [] self.kind = "Null" /\ other.kind = "Null" -> TRUE
      [] self.kind = "Undefined" /\ other.kind = "Undefined" -> TRUE
      [] self.kind = "Boolean" /\ other.kind = "Boolean" ->
           self.boolean = other.boolean
      [] self.kind = "String" /\ other.kind = "String" ->
           self.string = other.string
      [] OTHER -> FALSE

\* PrimitiveValue::not_strictly_equals
not_strictly_equals(self, other) == ~strictly_equals(self, other)

(***************************************************************************)
(* State                                                                   *)
(***************************************************************************)

VARIABLES
    fun,                \* the function the pass is given (`fun`)
    env,                \* the environment's id counters (`env`)
    pc,                 \* where the pass is: idle, each_block, inline, initialize, panicked
    cursor,             \* position in the block map of the next block to visit
    use_memo_globals,   \* indices of the loads of "useMemo" seen in this run
    functions,          \* indices of the function literals seen in this run
    rewriter,           \* BlockRewriter: visited blocks as kept, and new blocks
    inlined,            \* the lambdas moved out in this run
    result,             \* what the latest run returned: none, Ok, or the diagnostic
    prev,               \* the function and counters as they were when the run began
    trace,              \* the calls inlined in this run, as the closure saw them
    left,               \* a primitive value: `self` of the value operations
    right,              \* a primitive value: `other` / `rhs` of the value operations
    subject,            \* the instruction value each_operand is called on
    answer              \* the latest value operation: its name, panic, result

\* The state of a run of the pass, and the state of the value operations.
pass == <<fun, env, pc, cursor, use_memo_globals, functions, rewriter, inlined,
          result, prev, trace>>
values == <<left, right, subject, answer>>

vars == <<fun, env, pc, cursor, use_memo_globals, functions, rewriter, inlined,
          result, prev, trace, left, right, subject, answer>>

\* No value operation has been applied.
NoAnswer == [op |-> "none", panic |-> FALSE, out |-> <<>>]

\* No value operation is going on.
ValuesAtRest ==
    /\ left = UndefinedValue
    /\ right = UndefinedValue
    /\ subject = Tombstone
    /\ answer = NoAnswer

Init ==
    /\ fun \in Inputs
    /\ env = InitialEnvironment
    /\ pc = "idle"
    /\ cursor = 0
    /\ use_memo_globals = {}
    /\ functions = {}
    /\ rewriter = [blocks |-> <<>>, new_blocks |-> <<>>]
    /\ inlined = <<>>
    /\ result = "none"
    /\ prev = [fun |-> fun, env |-> env]
    /\ trace = <<>>
    /\ ValuesAtRest

(***************************************************************************)
(* Actions                                                                 *)
(***************************************************************************)

\* Entry of inline_use_memo: fresh sets, a rewriter over the block map.
inline_use_memo ==
    /\ pc = "idle"
    /\ pc' = "each_block"
    /\ cursor' = 1
    /\ use_memo_globals' = {}
    /\ functions' = {}
    /\ rewriter' = [blocks |-> <<>>, new_blocks |-> <<>>]
    /\ inlined' = <<>>
    /\ result' = "none"
    /\ prev' = [fun |-> fun, env |-> env]
    /\ trace' = <<>>
    /\ UNCHANGED <<fun, env>>
    /\ UNCHANGED values

\* try_each_block calls the closure on the next block of the map.
try_each_block ==
    /\ pc = "each_block"
    /\ cursor <= Len(fun.body.blocks)
    /\ LET out == ScanBlock(fun.body.blocks[cursor], 0,
                      [instructions |-> fun.body.instructions, env |-> env,
                       use_memo_globals |-> use_memo_globals,
                       functions |-> functions,
                       new_blocks |-> rewriter.new_blocks,
                       inlined |-> inlined, events |-> trace])
       IN  /\ fun' = [fun EXCEPT !.body.instructions = out.instructions]
           /\ env' = out.env
           /\ use_memo_globals' = out.use_memo_globals
           /\ functions' = out.functions
           /\ inlined' = out.inlined
           /\ trace' = out.events
           /\ IF out.action = "Keep"
              THEN /\ rewriter' = [blocks |-> Append(rewriter.blocks, out.block),
                                   new_blocks |-> out.new_blocks]
                   /\ cursor' = cursor + 1
                   /\ pc' = "each_block"
                   /\ result' = result
              ELSE /\ rewriter' = [blocks |-> <<>>, new_blocks |-> <<>>]
                   /\ cursor' = 0
                   /\ pc' = IF out.action = "Err" THEN "idle" ELSE "panicked"
                   /\ result' = out.msg
    /\ UNCHANGED prev
    /\ UNCHANGED values

\* The traversal is over: the rewriter commits the kept and the new blocks;
\* with nothing inlined the pass returns Ok.
finish_each_block ==
    /\ pc = "each_block"
    /\ cursor > Len(fun.body.blocks)
    /\ fun' = [fun EXCEPT !.body.blocks = rewriter.blocks \o rewriter.new_blocks]
    /\ rewriter' = [blocks |-> <<>>, new_blocks |-> <<>>]
    /\ cursor' = 0
    /\ IF inlined = <<>>
       THEN pc' = "idle" /\ result' = "Ok"
       ELSE pc' = "inline" /\ result' = result
    /\ UNCHANGED <<env, use_memo_globals, functions, inlined, prev, trace>>
    /\ UNCHANGED values

\* `for lambda in inlined { fun.body.inline(lambda) }`
inline_lambdas ==
    /\ pc = "inline"
    /\ fun' = [fun EXCEPT !.body = InlineAll(@, inlined, 1)]
    /\ inlined' = <<>>
    /\ pc' = "initialize"
    /\ UNCHANGED <<env, cursor, use_memo_globals, functions, rewriter, result,
                   prev, trace>>
    /\ UNCHANGED values

\* `initialize_hir(&mut fun.body)?; Ok(())`
initialize ==
    /\ pc = "initialize"
    /\ fun' = [fun EXCEPT !.body = initialize_hir(@)]
    /\ pc' = "idle"
    /\ result' = "Ok"
    /\ UNCHANGED <<env, cursor, use_memo_globals, functions, rewriter, inlined,
                   prev, trace>>
    /\ UNCHANGED values

Next ==
    \/ inline_use_memo
    \/ try_each_block
    \/ finish_each_block
    \/ inline_lambdas
    \/ initialize

Spec == Init /\ [][Next]_vars

(***************************************************************************)
(* The value operations of instruction.rs: Number, PrimitiveValue          *)
(***************************************************************************)

\* The pass is not running: an empty function, nothing returned.
PassAtRest ==
    /\ fun = LowerFunction(<<>>, 0)
    /\ env = InitialEnvironment
    /\ pc = "idle"
    /\ cursor = 0
    /\ use_memo_globals = {}
    /\ functions = {}
    /\ rewriter = [blocks |-> <<>>, new_blocks |-> <<>>]
    /\ inlined = <<>>
    /\ result = "none"
    /\ prev = [fun |-> fun, env |-> env]
    /\ trace = <<>>

\* Two primitive values as a caller builds them.
InitValues ==
    /\ PassAtRest
    /\ left \in PrimitiveValues
    /\ right \in PrimitiveValues
    /\ subject = Tombstone
    /\ answer = NoAnswer

\* Both values are numbers.
BothNumbers == left.kind = "Number" /\ right.kind = "Number"

\* Converting one of the two numbers to its floating form fails its assertion.
ConversionPanics ==
    BothNumbers /\ (F64From(left.number).panic \/ F64From(right.number).panic)

\* `left = left <op> right` where floating is the floating result and number
\* the Number made of it; results outside the model's finite values are left out.
Arithmetic(op, floating, number) ==
    /\ BothNumbers
    /\ ConversionPanics \/ floating.class # "Unrepresentable"
    /\ left' = IF ConversionPanics THEN left ELSE NumberValue(number)
    /\ answer' = [op |-> op, panic |-> ConversionPanics, out |-> <<>>]
    /\ UNCHANGED <<right, subject>>
    /\ UNCHANGED pass

Add ==
    \E nan \in NaNPatterns :
        Arithmetic("add", add_result(left.number, right.number, nan),
                   add(left.number, right.number, nan))

Sub ==
    \E nan \in NaNPatterns :
        Arithmetic("sub", sub_result(left.number, right.number, nan),
                   sub(left.number, right.number, nan))

Mul ==
    \E nan \in NaNPatterns :
        Arithmetic("mul", mul_result(left.number, right.number, nan),
                   mul(left.number, right.number, nan))

Div ==
    \E nan \in NaNPatterns :
        Arithmetic("div", div_result(left.number, right.number, nan),
                   div(left.number, right.number, nan))

\* An operation that only looks at the two values and yields out.
Query(op, panic, out) ==
    /\ answer' = [op |-> op, panic |-> panic, out |-> <<out>>]
    /\ UNCHANGED <<left, right, subject>>
    /\ UNCHANGED pass

Equals ==
    /\ BothNumbers
    /\ Query("equals", ConversionPanics, equals(left.number, right.number))

NotEquals ==
    /\ BothNumbers
    /\ Query("not_equals", ConversionPanics, not_equals(left.number, right.number))

IsTruthy ==
    Query("is_truthy", left.kind = "Number" /\ F64From(left.number).panic,
          is_truthy(left))

LooselyEquals ==
    Query("loosely_equals", ConversionPanics, loosely_equals(left, right))

NotLooselyEquals ==
    Query("not_loosely_equals", ConversionPanics, not_loosely_equals(left, right))

StrictlyEquals ==
    Query("strictly_equals", ConversionPanics, strictly_equals(left, right))

NotStrictlyEquals ==
    Query("not_strictly_equals", ConversionPanics, not_strictly_equals(left, right))

\* The caller builds another value for the right-hand side.
NewPrimitive ==
    /\ right' \in PrimitiveValues
    /\ answer' = NoAnswer
    /\ UNCHANGED <<left, subject>>
    /\ UNCHANGED pass

NextValues ==
    \/ Add
    \/ Sub
    \/ Mul
    \/ Div
    \/ Equals
    \/ NotEquals
    \/ IsTruthy
    \/ LooselyEquals
    \/ NotLooselyEquals
    \/ StrictlyEquals
    \/ NotStrictlyEquals
    \/ NewPrimitive

SpecValues == InitValues /\ [][NextValues]_vars

(***************************************************************************)
(* each_operand applied to an instruction value                            *)
(***************************************************************************)

\* Longest list of elements, arguments, dependencies or children of an
\* instruction value a caller builds.
MaxOperands == 2

\* Every list of at most MaxOperands members of S.
ListsOf(S) == UNION {[1..n -> S] : n \in 0..MaxOperands}

\* The instruction values each_operand is applied to: every variant, with
\* operands that refer to the instructions 0 and 1.
InstructionValues ==
    {Array(elements) : elements \in ListsOf({Hole, Place(0), Spread(1)})}
        \cup {Binary(l, "Add", r) : l \in 0..1, r \in 0..1}
        \cup {Call(c, arguments) : c \in 0..1,
                                   arguments \in ListsOf({Place(0), Spread(1)})}
        \cup {StoreLocal(LocalX(1), "Const", ix) : ix \in 0..1}
        \cup {FunctionExpression(dependencies, Lambda("simple", LambdaBase(1))) :
                dependencies \in ListsOf({Operand(0), Operand(1)})}
        \cup {JSXElement(t, props, children) :
                t \in 0..1,
                props \in ListsOf({JSXSpreadAttribute(0), JSXAttribute("a", 1)}),
                children \in {None} \cup {Some(c) : c \in ListsOf({Operand(1)})}}
        \cup {LoadContext(ix) : ix \in 0..1}
        \cup {DeclareContext(LocalX(1)), LoadGlobal("useMemo"),
              DeclareLocal(LocalX(1), "Let"), LoadLocal(LocalX(1)),
              Primitive("1"), Tombstone}

InitOperands ==
    /\ PassAtRest
    /\ left = UndefinedValue
    /\ right = UndefinedValue
    /\ subject \in InstructionValues
    /\ answer = NoAnswer

\* `instr.each_operand(f)`: the callback records the operand it is given.
EachOperand ==
    /\ answer.op = "none"
    /\ answer' = [op |-> "each_operand", panic |-> FALSE,
                  out |-> each_operand(subject)]
    /\ UNCHANGED <<left, right, subject>>
    /\ UNCHANGED pass

\* The caller turns to another instruction.
NextInstruction ==
    /\ answer.op = "each_operand"
    /\ subject' \in InstructionValues
    /\ answer' = NoAnswer
    /\ UNCHANGED <<left, right>>
    /\ UNCHANGED pass

NextOperands ==
    \/ EachOperand
    \/ NextInstruction

SpecOperands == InitOperands /\ [][NextOperands]_vars

(***************************************************************************)
(* Vocabulary of the properties                                            *)
(***************************************************************************)

ParamsMessage == "useMemo callbacks may not accept any arguments"
AsyncMessage == "useMemo callbacks may not be async or generator functions"

\* The latest call of the pass has returned / returned Ok / returned Err.
Returned == pc = "idle" /\ result # "none"
ReturnedOk == pc = "idle" /\ result = "Ok"
ReturnedErr == pc = "idle" /\ result \in {ParamsMessage, AsyncMessage}

\* The blocks of the function as the run has them: while the traversal is
\* going on, the rewriter's kept and new blocks; afterwards the block map.
CurrentBlocks ==
    IF pc = "each_block" THEN rewriter.blocks \o rewriter.new_blocks
    ELSE fun.body.blocks

\* The run has not been aborted by a diagnostic or a panic.
NotAborted == pc \in {"each_block", "inline", "initialize"} \/ ReturnedOk

\* The instruction with index ix of body is a call of the inlinable shape:
\* callee a load of the global "useMemo", first argument a plain place that
\* refers to a function literal.
InlinableCall(body, ix) ==
    LET value == InstrAt(body.instructions, ix).value
    IN  /\ value.tag = "Call"
        /\ LET callee == InstrAt(body.instructions, value.callee.ix).value
           IN  callee.tag = "LoadGlobal" /\ callee.name = "useMemo"
        /\ Len(value.arguments) > 0
        /\ value.arguments[1].kind = "Place"
        /\ InstrAt(body.instructions, value.arguments[1].operand.ix).value.tag
               = "Function"

\* The function literal passed to the inlinable call with index ix.
LambdaOf(body, ix) ==
    InstrAt(body.instructions,
            InstrAt(body.instructions, ix).value.arguments[1].operand.ix)
        .value.lowered_function

BlockHoldsInlinable(body, block) ==
    \E p \in 1..Len(block.instructions) : InlinableCall(body, block.instructions[p])

HasInlinable(body) ==
    \E n \in 1..Len(body.blocks) : BlockHoldsInlinable(body, body.blocks[n])

BadLambda(f) == f.params # <<>> \/ f.is_async \/ f.is_generator

LoadsTemporary(body) ==
    \E j \in 1..Len(body.instructions) :
        /\ body.instructions[j].value.tag = "LoadLocal"
        /\ body.instructions[j].value.place.identifier.name = "t"

C2_NoPartialCommitOnErr ==
    ReturnedErr =>
        /\ fun.body.instructions = prev.fun.body.instructions
        /\ fun.body.blocks = prev.fun.body.blocks

\* The function holds an inlinable call whose lambda breaks the contract.
HasBadInlinable(body) ==
    \E n \in 1..Len(body.blocks) :
        \E p \in 1..Len(body.blocks[n].instructions) :
            /\ InlinableCall(body, body.blocks[n].instructions[p])
            /\ BadLambda(LambdaOf(body, body.blocks[n].instructions[p]))

\* C3 (as stated): the pass returns the diagnostic exactly when the function
\* holds an inlinable call whose lambda has parameters or is async or a
\* generator, and Ok in every other case.
C3_ErrIffContractViolated ==
    Returned =>
        /\ ReturnedErr <=> HasBadInlinable(prev.fun.body)
        /\ ~ReturnedErr => result = "Ok"

\* The calls the run replaced by a load without inlining them: the call whose
\* lambda failed validation.
RejectedCalls ==
    {ix \in 0..(Len(prev.fun.body.instructions) - 1) :
        /\ InstrAt(prev.fun.body.instructions, ix).value.tag = "Call"
        /\ InstrAt(fun.body.instructions, ix).value.tag = "LoadLocal"
        /\ \A k \in 1..Len(trace) : trace[k].instr_ix # ix}

\* C3 (amended): the pass returns the diagnostic only when the function holds
\* such a call; when the function holds one, the run returns the diagnostic
\* or returns Ok having inlined another call first; the message is the one
\* about arguments when the rejected lambda has parameters, and otherwise the
\* one about async or generator functions.
C3_ErrOnlyWhenContractViolated ==
    Returned =>
        /\ result \in {"Ok", ParamsMessage, AsyncMessage}
        /\ ReturnedErr => HasBadInlinable(prev.fun.body)
        /\ (HasBadInlinable(prev.fun.body) /\ result = "Ok") => trace # <<>>
        /\ ReturnedErr =>
              /\ Cardinality(RejectedCalls) = 1
              /\ \A ix \in RejectedCalls :
                    /\ InlinableCall(prev.fun.body, ix)
                    /\ BadLambda(LambdaOf(prev.fun.body, ix))
                    /\ result = IF LambdaOf(prev.fun.body, ix).params # <<>>
                                THEN ParamsMessage ELSE AsyncMessage

C3_Witness ==
    /\ ReturnedErr
    /\ result = ParamsMessage
    /\ \E ix \in RejectedCalls : LambdaOf(prev.fun.body, ix).is_async

\* Position of the instruction with index ix in the traversal of body: the
\* number of its block, then its place in the block.
Visited(body, ix) ==
    \E n \in 1..Len(body.blocks) :
        \E p \in 1..Len(body.blocks[n].instructions) : body.blocks[n].instructions[p] = ix

VisitedBefore(body, a, b) ==
    \E n \in 1..Len(body.blocks), m \in 1..Len(body.blocks) :
        \E p \in 1..Len(body.blocks[n].instructions),
           q \in 1..Len(body.blocks[m].instructions) :
            /\ body.blocks[n].instructions[p] = a
            /\ body.blocks[m].instructions[q] = b
            /\ n < m \/ (n = m /\ p < q)

\* No call of the function matches: each has a callee that is no load of
\* "useMemo" visited earlier, or no first argument, or a spread first
\* argument, or a first argument that refers to no function literal.
NoCallMatches(body) ==
    \A ix \in 0..(Len(body.instructions) - 1) :
        LET value == InstrAt(body.instructions, ix).value
        IN  (value.tag = "Call" /\ Visited(body, ix)) =>
                \/ ~(/\ IsUseMemoGlobal(InstrAt(body.instructions, value.callee.ix).value)
                     /\ VisitedBefore(body, value.callee.ix, ix))
                \/ Len(value.arguments) = 0
                \/ value.arguments[1].kind = "Spread"
                \/ InstrAt(body.instructions, value.arguments[1].operand.ix).value.tag
                       # "Function"

\* C4: when no call matches, the pass returns Ok and leaves the function and
\* the environment's counters as they were, and never reaches the merge of
\* lambdas or the re-initialization.
C4_NoMatchLeavesUntouched ==
    NoCallMatches(prev.fun.body) =>
        /\ fun.body.instructions = prev.fun.body.instructions
        /\ fun.body.blocks = prev.fun.body.blocks
        /\ fun.body.entry = prev.fun.body.entry
        /\ env = prev.env
        /\ pc \notin {"inline", "initialize", "panicked"}
        /\ Returned => result = "Ok"

\* A run over a function with a useMemo call that takes a spread has returned.
C4_Witness ==
    /\ ReturnedOk
    /\ NoCallMatches(prev.fun.body)
    /\ \E ix \in 0..(Len(fun.body.instructions) - 1) :
          LET value == InstrAt(fun.body.instructions, ix).value
          IN  /\ value.tag = "Call"
              /\ IsUseMemoGlobal(InstrAt(fun.body.instructions, value.callee.ix).value)
              /\ Len(value.arguments) > 0
              /\ value.arguments[1].kind = "Spread"

\* Ids of the identifiers a function tree mentions.
RECURSIVE IdentifierIdsOf(_)
IdentifierIdsOf(f) ==
    UNION {LET value == f.body.instructions[j].value
           IN  CASE value.tag = "LoadLocal" -> {value.place.identifier.id}
                 [] value.tag \in {"DeclareLocal", "StoreLocal"} ->
                        {value.lvalue.identifier.identifier.id}
                 [] value.tag = "Function" -> IdentifierIdsOf(value.lowered_function)
                 [] OTHER -> {}
           : j \in 1..Len(f.body.instructions)}

\* Indices of the calls inlined in this run and of their function literals.
InlinedIndices ==
    {trace[k].instr_ix : k \in 1..Len(trace)}
        \cup {trace[k].lambda_ix : k \in 1..Len(trace)}

\* C5: an inlined call is replaced in place: same index, same instruction id,
\* value a LoadLocal (no effect) of a temporary named "t" whose id was never
\* issued before; the other instructions that existed keep their value; two
\* inlined calls get temporaries with different ids.
C5_CallReplacedInPlace ==
    /\ \A k \in 1..Len(trace) :
          LET e == trace[k]
              old == InstrAt(prev.fun.body.instructions, e.instr_ix)
              new == InstrAt(fun.body.instructions, e.instr_ix)
          IN  /\ old.value.tag = "Call"
              /\ new.id = old.id
              /\ new.value.tag = "LoadLocal"
              /\ new.value.place.effect = "None"
              /\ new.value.place.identifier = e.temporary
              /\ e.temporary.name = "t"
              /\ e.temporary.id >= prev.env.next_identifier_id
              /\ e.temporary.id < env.next_identifier_id
              /\ e.temporary.id \notin IdentifierIdsOf(prev.fun)
    /\ \A k \in 1..Len(trace), m \in 1..Len(trace) :
          k # m => /\ trace[k].temporary.id # trace[m].temporary.id
                   /\ trace[k].temporary.name = trace[m].temporary.name
    /\ NotAborted =>
          \A ix \in 0..(Len(prev.fun.body.instructions) - 1) :
              ix \notin InlinedIndices =>
                  InstrAt(fun.body.instructions, ix)
                      = InstrAt(prev.fun.body.instructions, ix)

\* A run has inlined a call in a function that already loads the temporary
\* of an earlier run, and the call's consumer is still in place.
C5_Witness ==
    /\ ReturnedOk
    /\ trace # <<>>
    /\ LoadsTemporary(prev.fun.body)
    /\ \E j \in 1..Len(fun.body.instructions) :
          /\ fun.body.instructions[j].value.tag = "StoreLocal"
          /\ fun.body.instructions[j].value.stored.ix = trace[1].instr_ix

\* C6: in the body of an inlined lambda, a block that ended in a Return has
\* its old instruction list followed by one new StoreLocal (Reassign) of the
\* returned operand to the call's temporary, and ends in a Break goto to the
\* call's continuation block; the other blocks are as they were.
C6_ReturnsRewritten ==
    Len(inlined) = Len(trace) =>
        \A k \in 1..Len(trace) :
            LET e == trace[k]
                before == e.lambda.body
                after == inlined[k].body
            IN  /\ Len(after.blocks) = Len(before.blocks)
                /\ e.continuation_block_id \notin BlockIds(prev.fun.body.blocks)
                /\ e.continuation_block_id \notin BlockIds(before.blocks)
                /\ \A n \in 1..Len(before.blocks) :
                      LET ob == before.blocks[n]
                          nb == after.blocks[n]
                      IN  IF ob.terminal.value.tag = "Return"
                          THEN /\ Len(nb.instructions) = Len(ob.instructions) + 1
                               /\ SubSeq(nb.instructions, 1, Len(ob.instructions))
                                      = ob.instructions
                               /\ nb.instructions[Len(nb.instructions)]
                                      >= Len(before.instructions)
                               /\ LET store == InstrAt(after.instructions,
                                          nb.instructions[Len(nb.instructions)]).value
                                  IN  /\ store.tag = "StoreLocal"
                                      /\ store.lvalue.kind = "Reassign"
                                      /\ store.lvalue.identifier.identifier = e.temporary
                                      /\ store.stored.ix = ob.terminal.value.returned.ix
                               /\ nb.terminal.value.tag = "Goto"
                               /\ nb.terminal.value.kind = "Break"
                               /\ nb.terminal.value.block = e.continuation_block_id
                               /\ nb.id = ob.id
                          ELSE nb = ob
                /\ Len(after.instructions) = Len(before.instructions)
                     + Cardinality({n \in 1..Len(before.blocks) :
                                       before.blocks[n].terminal.value.tag = "Return"})

\* A lambda with two returns behind an `if` has been rewritten.
C6_Witness ==
    /\ pc = "inline"
    /\ \E k \in 1..Len(trace) :
          /\ Cardinality({n \in 1..Len(inlined[k].body.blocks) :
                 inlined[k].body.blocks[n].terminal.value.tag = "Goto"}) = 2
          /\ \E n \in 1..Len(inlined[k].body.blocks) :
                 inlined[k].body.blocks[n].terminal.value.tag = "If"

\* C7 (as stated): the original block keeps positions 0..i and then the
\* declaration; the continuation block holds positions i+1 onward.
C7_SplitAfterCallSite ==
    NotAborted =>
        \A k \in 1..Len(trace) :
            LET e == trace[k]
                old == BlockById(prev.fun.body.blocks, e.block).instructions
                kept == BlockById(CurrentBlocks, e.block).instructions
                cont == BlockById(CurrentBlocks, e.continuation_block_id).instructions
            IN  /\ SubSeq(kept, 1, Len(kept) - 1) = SubSeq(old, 1, e.i + 1)
                /\ cont = SubSeq(old, e.i + 2, Len(old))

\* C7 (amended): the original block keeps the positions before the call site
\* (0..i-1) followed by one new DeclareLocal (Let) of the temporary; the
\* continuation block holds the call site's replacement and everything after
\* it (positions i onward) in order; no index is lost or duplicated.
C7_SplitAtCallSite ==
    NotAborted =>
        \A k \in 1..Len(trace) :
            LET e == trace[k]
                old == BlockById(prev.fun.body.blocks, e.block).instructions
                kept == BlockById(CurrentBlocks, e.block).instructions
                cont == BlockById(CurrentBlocks, e.continuation_block_id).instructions
                declare == InstrAt(fun.body.instructions, kept[Len(kept)]).value
            IN  /\ old[e.i + 1] = e.instr_ix
                /\ Len(kept) = e.i + 1
                /\ SubSeq(kept, 1, e.i) = SubSeq(old, 1, e.i)
                /\ kept[Len(kept)] >= Len(prev.fun.body.instructions)
                /\ declare.tag = "DeclareLocal"
                /\ declare.lvalue.kind = "Let"
                /\ declare.lvalue.identifier.identifier = e.temporary
                /\ cont = SubSeq(old, e.i + 1, Len(old))
                /\ cont[1] = e.instr_ix
                /\ SubSeq(kept, 1, Len(kept) - 1) \o cont = old

\* A call with instructions before and after it has been inlined.
C7_Witness ==
    /\ ReturnedOk
    /\ \E k \in 1..Len(trace) :
          /\ trace[k].i > 2
          /\ Len(BlockById(fun.body.blocks, trace[k].continuation_block_id).instructions) > 1

\* C8: the block of an inlined call ends in a Label terminal with the id of
\* its old terminal, the lambda's entry block as body and the continuation
\* block as fallthrough; the old terminal ends the continuation block, which
\* has the fresh id, the block's kind, no phis and, until re-initialization,
\* no predecessors.
C8_LabelAndContinuation ==
    NotAborted =>
        \A k \in 1..Len(trace) :
            LET e == trace[k]
                old == BlockById(prev.fun.body.blocks, e.block)
                kept == BlockById(CurrentBlocks, e.block)
                cont == BlockById(CurrentBlocks, e.continuation_block_id)
            IN  /\ kept.terminal.id = old.terminal.id
                /\ kept.terminal.value.tag = "Label"
                /\ kept.terminal.value.block = e.lambda.body.entry
                /\ kept.terminal.value.fallthrough = e.continuation_block_id
                /\ e.continuation_block_id \in BlockIds(CurrentBlocks)
                /\ cont.terminal = old.terminal
                /\ cont.id = e.continuation_block_id
                /\ e.continuation_block_id >= prev.env.next_block_id
                /\ cont.kind = old.kind
                /\ cont.phis = <<>>
                /\ pc # "idle" => cont.predecessors = {}

\* The second block of a function, ending in a Return, has been split.
C8_Witness ==
    /\ pc = "initialize"
    /\ \E k \in 1..Len(trace) :
          /\ trace[k].block = 1
          /\ BlockById(fun.body.blocks, trace[k].continuation_block_id)
                 .terminal.value.tag = "Return"

\* f(); const x = useMemo(() => { return 1; }); x;
SimpleShape ==
    LowerFunction(<<[op |-> "call", lam |-> "simple"],
                    [op |-> "memo", lam |-> "simple"]>>, 2)

\* C9 (as stated): after a successful run on the simple shape no block of the
\* function ends in a Return.
C9_NoReturnRemains ==
    (ReturnedOk /\ prev.fun = SimpleShape) =>
        \A n \in 1..Len(fun.body.blocks) :
            fun.body.blocks[n].terminal.value.tag # "Return"

\* C9 (amended): after a successful run on the simple shape no Return remains
\* in the moved-in lambda blocks nor in the original block; the one Return
\* left is the function's own, now the terminal of the continuation block.
C9_OnlyOwnReturnRemains ==
    (ReturnedOk /\ prev.fun = SimpleShape) =>
        /\ Len(trace) = 1
        /\ Len(fun.body.blocks) = 3
        /\ \A n \in 1..Len(fun.body.blocks) :
              fun.body.blocks[n].terminal.value.tag = "Return"
                  <=> fun.body.blocks[n].id = trace[1].continuation_block_id
        /\ BlockById(fun.body.blocks, trace[1].continuation_block_id).terminal
               = prev.fun.body.blocks[1].terminal

C9_Witness == ReturnedOk /\ prev.fun = SimpleShape /\ trace # <<>>

\* Block ids of a function tree: how many blocks it has, and their ids.
RECURSIVE TreeBlockCount(_)
RECURSIVE TreeBlockCountFrom(_, _)
TreeBlockCount(f) == Len(f.body.blocks) + TreeBlockCountFrom(f.body.instructions, 1)
TreeBlockCountFrom(instructions, j) ==
    IF j > Len(instructions) THEN 0
    ELSE (IF instructions[j].value.tag = "Function"
          THEN TreeBlockCount(instructions[j].value.lowered_function)
          ELSE 0) + TreeBlockCountFrom(instructions, j + 1)

RECURSIVE TreeBlockIds(_)
TreeBlockIds(f) ==
    BlockIds(f.body.blocks)
        \cup UNION {IF f.body.instructions[j].value.tag = "Function"
                    THEN TreeBlockIds(f.body.instructions[j].value.lowered_function)
                    ELSE {}
                    : j \in 1..Len(f.body.instructions)}

BlockIdsUnique(f) == Cardinality(TreeBlockIds(f)) = TreeBlockCount(f)

\* C10: block ids stay unique over the function tree: once the lambdas are
\* merged, and after every run, no two blocks of the tree share an id and the
\* counter is above them all; each continuation block is in the function
\* under an id that no earlier block, no moved-in block and no other
\* continuation block has.
C10_BlockIdsUnique ==
    /\ pc \in {"idle", "initialize"} =>
          /\ BlockIdsUnique(fun)
          /\ \A id \in TreeBlockIds(fun) : id < env.next_block_id
    /\ \A k \in 1..Len(trace) :
          /\ trace[k].continuation_block_id \notin TreeBlockIds(prev.fun)
          /\ \A m \in 1..Len(trace) :
                k # m => trace[k].continuation_block_id # trace[m].continuation_block_id
          /\ NotAborted =>
                Cardinality({n \in 1..Len(CurrentBlocks) :
                    CurrentBlocks[n].id = trace[k].continuation_block_id}) = 1

\* A second run has merged more lambda blocks into a function that already
\* holds a continuation block.
C10_Witness ==
    /\ ReturnedOk
    /\ trace # <<>>
    /\ LoadsTemporary(prev.fun.body)
    /\ Len(fun.body.blocks) > Len(prev.fun.body.blocks) + 1

(***************************************************************************)
(* C11: operands and tombstones                                            *)
(***************************************************************************)

\* The operands of a terminal: the returned value, the test of a branch.
TerminalOperands(value) ==
    CASE value.tag = "Return" -> <<value.returned>>
      [] value.tag = "If" -> <<value.test>>
      [] OTHER -> <<>>

\* Operand o of body refers to an instruction that is a tombstone.
IsDangling(body, o) == InstrAt(body.instructions, o.ix).value.tag = "Tombstone"

\* Some operand of a non-tombstone instruction or of a terminal of body
\* refers to a tombstone.
RefersToTombstone(body) ==
    \/ \E j \in 1..Len(body.instructions) :
           LET operands == each_operand(body.instructions[j].value)
           IN  \E k \in 1..Len(operands) : IsDangling(body, operands[k])
    \/ \E n \in 1..Len(body.blocks) :
           LET operands == TerminalOperands(body.blocks[n].terminal.value)
           IN  \E k \in 1..Len(operands) : IsDangling(body, operands[k])

\* C11: when the pass returns Ok on a function in which no operand referred
\* to a tombstone, no operand of an instruction or terminal of the function
\* refers to a tombstone afterwards.
C11_NoOperandRefersToTombstone ==
    (ReturnedOk /\ ~RefersToTombstone(prev.fun.body))
        => ~RefersToTombstone(fun.body)

(***************************************************************************)
(* C12: Number::equals on NaNs and zeros                                   *)
(***************************************************************************)

\* The canonical NaN as a primitive value, and the two zeros.
NaNValue == NumberValue(NumberFrom(NAN))
PlusZero == NumberValue(NumberFrom(Finite(0, 0)))
MinusZero == NumberValue(NumberFrom(Finite(1, 0)))

\* Both values are numbers made from a NaN.
BothNaN ==
    /\ left \in {NumberValue(NumberFrom(v)) : v \in NaNPatterns}
    /\ right \in {NumberValue(NumberFrom(v)) : v \in NaNPatterns}

\* The values are the two zeros, one of each sign.
ZeroAndMinusZero ==
    \/ left = PlusZero /\ right = MinusZero
    \/ left = MinusZero /\ right = PlusZero

Canonical(number) ==
    ~is_nan(from_bits(number.bits)) \/ number.bits = to_bits(NAN)

\* The primitive value is a number holding a NaN.
HoldsNaN(value) == value.kind = "Number" /\ is_nan(from_bits(value.number.bits))

\* C13: every Number made by From<f64> or by additions, subtractions,
\* multiplications and divisions of such Numbers is no NaN or has the bits of
\* f64::NAN, so two NaNs have the same bits, and the assertion of the
\* conversion to the floating form never fails.
C13_NaNIsCanonical ==
    /\ left.kind = "Number" => Canonical(left.number)
    /\ right.kind = "Number" => Canonical(right.number)
    /\ (HoldsNaN(left) /\ HoldsNaN(right)) => left.number.bits = right.number.bits
    /\ ~answer.panic

\* A division by a zero has produced a NaN.
C13_Witness ==
    /\ answer.op = "div"
    /\ HoldsNaN(left)
    /\ right \in {PlusZero, MinusZero}

(***************************************************************************)
(* C14: truthiness                                                         *)
(***************************************************************************)

\* JavaScript truthiness of a primitive value, read off its representation:
\* a number is falsy when its bits are those of f64::NAN, of 0.0 or of -0.0.
Truthy(value) ==
    CASE value.kind = "Number" ->
           value.number.bits \notin
               {to_bits(NAN), <<0, 0, 0, 0>>, <<32768, 0, 0, 0>>}
      [] value.kind = "String" -> value.string # ""
      [] value.kind = "Boolean" -> value.boolean
      [] value.kind \in {"Null", "Undefined"} -> FALSE

\* C14: is_truthy returns for every primitive value, without panic, its
\* JavaScript truthiness; 0.0, -0.0 and NaN are falsy and 1.0 is truthy.
C14_IsTruthyMatchesJavaScript ==
    answer.op = "is_truthy" =>
        /\ ~answer.panic
        /\ answer.out = <<Truthy(left)>>
        /\ left \in {PlusZero, MinusZero, NaNValue} => answer.out = <<FALSE>>
        /\ left = NumberValue(NumberFrom(Finite(0, 1))) => answer.out = <<TRUE>>

C14_Witness == answer.op = "is_truthy" /\ left = NaNValue /\ answer.out = <<FALSE>>

(***************************************************************************)
(* C15: the equality table                                                 *)
(***************************************************************************)

SameKind == left.kind = right.kind

\* Strict equality of two values of one kind, read off their representation:
\* numbers are equal when neither is a NaN and their bits agree or both are
\* a zero.
SameKindEqual ==
    CASE left.kind = "Number" ->
           /\ ~HoldsNaN(left)
           /\ ~HoldsNaN(right)
           /\ \/ left.number.bits = right.number.bits
              \/ {left, right} = {PlusZero, MinusZero}
      [] left.kind = "Boolean" -> left.boolean = right.boolean
      [] left.kind = "String" -> left.string = right.string
      [] left.kind \in {"Null", "Undefined"} -> TRUE

\* The table's entry for loose equality.
TableLoosely ==
    IF SameKind THEN Some(SameKindEqual)
    ELSE IF {left.kind, right.kind} = {"Null", "Undefined"} THEN Some(TRUE)
    ELSE None

\* The table's entry for strict equality.
TableStrictly == IF SameKind THEN SameKindEqual ELSE FALSE

\* C15: for a pair of one kind loosely_equals is Some(b) and strictly_equals
\* the same b; for null with undefined, in both orders, loosely_equals is
\* Some(true) and strictly_equals false; for any other pair of differing
\* kinds loosely_equals is None and strictly_equals false; not_loosely_equals
\* is None exactly when loosely_equals is, and its negation otherwise.
C15_EqualityTable ==
    /\ answer.op = "loosely_equals" => answer.out = <<TableLoosely>>
    /\ answer.op = "strictly_equals" => answer.out = <<TableStrictly>>
    /\ answer.op = "not_loosely_equals" =>
           answer.out = <<IF TableLoosely = None THEN None
                          ELSE Some(~TableLoosely[1])>>
    /\ answer.op = "not_strictly_equals" => answer.out = <<~TableStrictly>>
    /\ SameKind => loosely_equals(left, right) = Some(strictly_equals(left, right))
    /\ answer.op \in {"loosely_equals", "strictly_equals", "not_loosely_equals",
                      "not_strictly_equals"} => ~answer.panic

C15_Witness ==
    /\ answer.op = "loosely_equals"
    /\ left = NullValue
    /\ right = UndefinedValue
    /\ answer.out = <<Some(TRUE)>>

(***************************************************************************)
(* C16: each_operand visits every stored operand                           *)
(***************************************************************************)

\* The Operand fields an instruction value stores, by its struct definition,
\* in field order.
StoredOperands(value) ==
    CASE value.tag = "Array" ->
           LET items == SelectSeq(value.elements, LAMBDA item : item.kind # "Hole")
           IN  [j \in 1..Len(items) |-> items[j].operand]
      [] value.tag = "Binary" -> <<value.left, value.right>>
      [] value.tag = "Call" ->
           <<value.callee>>
               \o [j \in 1..Len(value.arguments) |-> value.arguments[j].operand]
      [] value.tag = "StoreLocal" -> <<value.stored>>
      [] value.tag = "Function" -> value.dependencies
      [] value.tag = "JSXElement" ->
           <<value.tag_>>
               \o [j \in 1..Len(value.props) |->
                      IF value.props[j].kind = "Spread" THEN value.props[j].argument
                      ELSE value.props[j].value]
               \o (IF value.children = None THEN <<>> ELSE value.children[1])
      [] value.tag = "LoadContext" -> <<value.place>>
      [] OTHER -> <<>>

\* C16: each_operand calls the callback exactly once on each Operand the
\* instruction value stores, in order, and on nothing else; it makes no call
\* for a Tombstone or a variant without Operand.
C16_EachOperandExhaustive ==
    answer.op = "each_operand" =>
        /\ ~answer.panic
        /\ answer.out = StoredOperands(subject)

(***************************************************************************)
(* C17: one inlining per visited block and run                             *)
(***************************************************************************)

\* The instruction indices of block that are inlinable calls in body.
InlinableIn(body, block) ==
    {block.instructions[p] : p \in 1..Len(block.instructions)}
        \cap {ix \in 0..(Len(body.instructions) - 1) : InlinableCall(body, ix)}

\* Some function literal is the first argument of two inlinable calls of body.
SharedLambda(body) ==
    \E a, b \in 0..(Len(body.instructions) - 1) :
        /\ a # b
        /\ InlinableCall(body, a)
        /\ InlinableCall(body, b)
        /\ LambdaIx(InstrAt(body.instructions, a).value)
               = LambdaIx(InstrAt(body.instructions, b).value)

\* In a run no block is inlined into twice, and only blocks the function had
\* when the run began are inlined into.
OneEventPerVisitedBlock ==
    /\ \A a, b \in 1..Len(trace) : a # b => trace[a].block # trace[b].block
    /\ \A a \in 1..Len(trace) : trace[a].block \in BlockIds(prev.fun.body.blocks)

\* The instructions behind an inlined call have not been examined: none of
\* them was recorded as a load of useMemo or as a function literal.
ScanStoppedAtMatch ==
    \A a \in 1..Len(trace) :
        LET block == BlockById(prev.fun.body.blocks, trace[a].block)
        IN  \A p \in (trace[a].i + 2)..Len(block.instructions) :
                block.instructions[p] \notin functions \cup use_memo_globals

\* After a successful run, of the k >= 2 inlinable calls a block held,
\* k - 1 are still inlinable calls.
OneFewerPerRun ==
    ReturnedOk =>
        \A n \in 1..Len(prev.fun.body.blocks) :
            LET before == InlinableIn(prev.fun.body, prev.fun.body.blocks[n])
                after == {ix \in before : InlinableCall(fun.body, ix)}
            IN  Cardinality(before) >= 2 =>
                    Cardinality(after) = Cardinality(before) - 1

\* C17: a run inlines at most one call per visited block, stops scanning the
\* block at that call, visits neither the continuation nor the lambda's
\* blocks, and so leaves k - 1 of the k >= 2 inlinable calls of a block.
C17_OneCallPerBlockPerRun ==
    /\ OneEventPerVisitedBlock
    /\ ScanStoppedAtMatch
    /\ OneFewerPerRun

(***************************************************************************)
(* C18: repeating the pass                                                 *)
(***************************************************************************)

\* The number of function-literal instructions in the tree of f.
RECURSIVE FunctionCount(_)
RECURSIVE FunctionCountFrom(_, _)
FunctionCount(f) == FunctionCountFrom(f.body.instructions, 1)
FunctionCountFrom(instructions, j) ==
    IF j > Len(instructions) THEN 0
    ELSE (IF instructions[j].value.tag = "Function"
          THEN 1 + FunctionCount(instructions[j].value.lowered_function)
          ELSE 0) + FunctionCountFrom(instructions, j + 1)

\* Every function literal passed to an inlinable call, anywhere in the tree
\* of f, passes validation.
RECURSIVE AllLambdasValid(_)
AllLambdasValid(f) ==
    \A j \in 1..Len(f.body.instructions) :
        /\ InlinableCall(f.body, j - 1) => ~BadLambda(LambdaOf(f.body, j - 1))
        /\ f.body.instructions[j].value.tag = "Function" =>
               AllLambdasValid(f.body.instructions[j].value.lowered_function)

\* A run on a tree of valid lambdas ends, and ends with Ok.
RunEndsWithOk == pc # "panicked" /\ ~ReturnedErr

\* A run that inlined calls has removed one function literal per call.
InliningRunShrinksTree ==
    (ReturnedOk /\ trace # <<>>) =>
        /\ FunctionCount(fun) = FunctionCount(prev.fun) - Len(trace)
        /\ FunctionCount(fun) < FunctionCount(prev.fun)

\* A run that inlined nothing has left the function as it was, without any
\* inlinable call.
IdleRunIsFixedPoint ==
    (ReturnedOk /\ trace = <<>>) =>
        /\ fun = prev.fun
        /\ ~HasInlinable(fun.body)

\* C18: on a tree whose useMemo lambdas all pass validation, every run of the
\* repeated pass ends with Ok; a run that inlines removes one function literal
\* of the tree per inlined call, so only finitely many runs inline; a run that
\* inlines nothing leaves the function unchanged and free of the pattern.
C18_RepeatedPassConverges ==
    AllLambdasValid(prev.fun) =>
        /\ RunEndsWithOk
        /\ InliningRunShrinksTree
        /\ IdleRunIsFixedPoint

(***************************************************************************)
(* C19: declaration and store precede the load of the temporary            *)
(***************************************************************************)

\* The ids of the blocks the terminal of block hands control to.
SuccessorIds(block) ==
    {SuccessorsReversed(block.terminal.value)[k] :
        k \in 1..Len(SuccessorsReversed(block.terminal.value))}

\* The ids of the blocks reached from the blocks in frontier along paths
\* that enter no block of removed; seen are the ids reached so far.
RECURSIVE Reach(_, _, _, _)
Reach(blocks, frontier, seen, removed) ==
    LET fresh == (frontier \cap BlockIds(blocks)) \ (seen \cup removed)
    IN  IF fresh = {} THEN seen
        ELSE Reach(blocks,
                   UNION {SuccessorIds(BlockById(blocks, id)) : id \in fresh},
                   seen \cup fresh, removed)

\* The instruction with index ix declares identifier with `let`.
DeclaresTemporary(body, ix, identifier) ==
    LET value == InstrAt(body.instructions, ix).value
    IN  /\ value.tag = "DeclareLocal"
        /\ value.lvalue = LValue(identifier, "Let")

\* The last instruction of block stores to identifier.
EndsWithStoreTo(body, block, identifier) ==
    /\ block.instructions # <<>>
    /\ LET value == InstrAt(body.instructions,
                            block.instructions[Len(block.instructions)]).value
       IN  /\ value.tag = "StoreLocal"
           /\ value.lvalue = LValue(identifier, "Reassign")

\* The ids of the blocks of body that end with a store to identifier.
StoringBlocks(body, identifier) ==
    {body.blocks[n].id : n \in {k \in 1..Len(body.blocks) :
                                  EndsWithStoreTo(body, body.blocks[k], identifier)}}

\* What C19 says of the inlining recorded as event e, in the function body.
DeclaredAndStoredBeforeLoad(body, e) ==
    LET region == BlockIds(e.lambda.body.blocks)
        site == BlockById(body.blocks, e.block)
    IN  \* the declaration is the last instruction before the inlined region
        /\ site.instructions # <<>>
        /\ DeclaresTemporary(body, site.instructions[Len(site.instructions)],
                             e.temporary)
        /\ site.terminal.value.tag = "Label"
        /\ site.terminal.value.block = e.lambda.body.entry
        \* control enters the inlined region only from the call's block
        /\ \A n \in 1..Len(body.blocks) :
               (body.blocks[n].id \notin region
                    /\ SuccessorIds(body.blocks[n]) \cap region # {})
                   => body.blocks[n].id = e.block
        /\ region \cap Reach(body.blocks, {body.entry}, {}, {e.block}) = {}
        \* every transfer into the continuation is a Break goto after a store
        /\ \A n \in 1..Len(body.blocks) :
               e.continuation_block_id \in SuccessorIds(body.blocks[n]) =>
                   /\ body.blocks[n].id \in region
                   /\ body.blocks[n].terminal.value
                          = GotoTerminal(e.continuation_block_id, "Break")
                   /\ EndsWithStoreTo(body, body.blocks[n], e.temporary)
        \* the load sits in the continuation only, which is reached neither
        \* around the declaration nor around every store
        /\ InstrAt(body.instructions, e.instr_ix).value = LoadLocal(e.temporary)
        /\ \A n \in 1..Len(body.blocks) :
               (\E p \in 1..Len(body.blocks[n].instructions) :
                    body.blocks[n].instructions[p] = e.instr_ix)
                   => body.blocks[n].id = e.continuation_block_id
        /\ e.continuation_block_id
               \notin Reach(body.blocks, {body.entry}, {}, {e.block})
        /\ e.continuation_block_id
               \notin Reach(body.blocks, {body.entry}, {},
                            StoringBlocks(body, e.temporary))
        /\ e.continuation_block_id \in Reach(body.blocks, {body.entry}, {}, {})

\* C19: in the function a successful inlining produces, the temporary is
\* declared before control enters the inlined region, control reaches the
\* continuation only by Break gotos that follow a store to the temporary, and
\* so the load at the former call site runs after the declaration and a store.
C19_DeclareAndStoreBeforeLoad ==
    ReturnedOk =>
        \A a \in 1..Len(trace) : DeclaredAndStoredBeforeLoad(fun.body, trace[a])

\* A lambda with two returns has been inlined.
C19_Witness ==
    /\ ReturnedOk
    /\ \E a \in 1..Len(trace) :
           Cardinality(StoringBlocks(fun.body, trace[a].temporary)) >= 2

(***************************************************************************)
(* C20: the `unreachable!` of the pass                                     *)
(***************************************************************************)

\* C20: no run reaches `unreachable!("Must be a function, checked above")`:
\* a call that passes the membership check on `functions` always finds a
\* function literal at the index of its first argument.
C20_UnreachableNeverReached ==
    /\ pc # "panicked"
    /\ result # "Must be a function, checked above"

====
